---- MODULE Spec2Model ----
(***************************************************************************)
(* Model of src/app.py: the per-ticker metric pipeline                     *)
(* (calcular_wacc_y_roic, obtener_datos_financieros) and the batch loop,   *)
(* result filtering and value-creation label of main.                      *)
(*                                                                         *)
(* Numbers are exact rationals n/d (d > 0, lowest terms).  Every value     *)
(* carries the flag np: TRUE for a numpy.float64 (a value read out of a    *)
(* pandas statement with .iloc[0], or computed from one), FALSE for a      *)
(* plain Python number.  The flag matters for division by zero: Python     *)
(* raises ZeroDivisionError, numpy returns nan/inf.                        *)
(* Strings are sequences of tokens.  Column names are written in ASCII.    *)
(***************************************************************************)
EXTENDS Integers, Sequences, FiniteSets, TLC

VARIABLES
  tickers_input,  \* text area content, split at the commas: a sequence of raw entries
  max_tickers,    \* slider value
  Rf, Rm, Tc,     \* module globals set from the sidebar (percent values / 100)
  tickers,        \* normalized and truncated ticker list
  pc,             \* position of the run
  batch_start,    \* outer loop variable
  i,              \* inner loop variable (index inside the batch, 0-based)
  batch_tickers,  \* tickers[batch_start:batch_end]
  provider,       \* what the data provider holds: ticker -> provider data
  raw,            \* provider data of the ticker being processed
  rec,            \* record returned by obtener_datos_financieros, not yet stored
  resultados,     \* dict ticker -> record, as a sequence of [k, v] in insertion order
  progreso,       \* sequence of fractions passed to progress_bar.progress
  log,            \* tickers handed to obtener_datos_financieros, in call order
  paced,          \* TRUE when time.sleep(1) of the loop ran since the last ticker was stored
  calc_paced,     \* TRUE when time.sleep(1) of calcular_wacc_y_roic ran for the current ticker
  outcome,        \* what the run showed: "none", "warning", "error", "table"
  df,             \* rows of the DataFrame after percentage formatting
  etiqueta        \* value-creation message of the selected row

vars == <<tickers_input, max_tickers, Rf, Rm, Tc, tickers, pc, batch_start, i,
          batch_tickers, provider, raw, rec, resultados, progreso, log, paced, calc_paced, outcome, df, etiqueta>>

-----------------------------------------------------------------------------
(* Values *)

RECURSIVE GCD(_, _)
GCD(a, b) == IF b = 0 THEN a ELSE GCD(b, a % b)

Abs(x) == IF x < 0 THEN -x ELSE x

Val(t, np, n, d, s) == [t |-> t, np |-> np, n |-> n, d |-> d, s |-> s]

None == Val("None", FALSE, 0, 1, <<>>)
Missing == Val("missing", FALSE, 0, 1, <<>>)
NaN == Val("nan", TRUE, 0, 1, <<>>)
Inf(sign) == Val("inf", TRUE, sign, 1, <<>>)
Raise(e) == Val("raise", FALSE, 0, 1, <<e>>)
Str(s) == Val("str", FALSE, 0, 1, s)

Rat(n, d, np) ==
  LET g == GCD(Abs(n), Abs(d))
      sg == IF d < 0 THEN -1 ELSE 1
  IN Val("num", np, sg * (n \div g), sg * (d \div g), <<>>)

Py(n, d) == Rat(n, d, FALSE)
Np(n, d) == Rat(n, d, TRUE)

IsNum(a) == a.t = "num"
IsZero(a) == a.t = "num" /\ a.n = 0
Sign(a) == IF a.n < 0 THEN -1 ELSE IF a.n > 0 THEN 1 ELSE 0

\* first exception raised while evaluating the operands, left to right
Raised(a, b) == IF a.t = "raise" THEN a ELSE b

Arith(a, b) == a.t \in {"num", "nan", "inf"} /\ b.t \in {"num", "nan", "inf"}

Add(a, b) ==
  IF a.t = "raise" \/ b.t = "raise" THEN Raised(a, b)
  ELSE IF ~Arith(a, b) THEN Raise("TypeError")
  ELSE IF a.t = "nan" \/ b.t = "nan" THEN NaN
  ELSE IF a.t = "inf" /\ b.t = "inf" THEN (IF a.n = b.n THEN a ELSE NaN)
  ELSE IF a.t = "inf" THEN a
  ELSE IF b.t = "inf" THEN b
  ELSE Rat(a.n * b.d + b.n * a.d, a.d * b.d, a.np \/ b.np)

Neg(a) == IF a.t \in {"num", "inf"} THEN [a EXCEPT !.n = -a.n] ELSE a

Sub(a, b) == Add(a, Neg(b))

Mul(a, b) ==
  IF a.t = "raise" \/ b.t = "raise" THEN Raised(a, b)
  ELSE IF ~Arith(a, b) THEN Raise("TypeError")
  ELSE IF a.t = "nan" \/ b.t = "nan" THEN NaN
  ELSE IF a.t = "inf" \/ b.t = "inf"
       THEN (IF Sign(a) * Sign(b) = 0 THEN NaN ELSE Inf(Sign(a) * Sign(b)))
  ELSE Rat(a.n * b.n, a.d * b.d, a.np \/ b.np)

Div(a, b) ==
  IF a.t = "raise" \/ b.t = "raise" THEN Raised(a, b)
  ELSE IF ~Arith(a, b) THEN Raise("TypeError")
  ELSE IF IsZero(b)
       THEN (IF ~(a.np \/ b.np) THEN Raise("ZeroDivisionError")
             ELSE IF a.t = "nan" \/ IsZero(a) THEN NaN
             ELSE Inf(Sign(a)))
  ELSE IF a.t = "nan" \/ b.t = "nan" THEN NaN
  ELSE IF b.t = "inf" THEN (IF a.t = "inf" THEN NaN ELSE Rat(0, 1, TRUE))
  ELSE IF a.t = "inf" THEN Inf(Sign(a) * Sign(b))
  ELSE Rat(a.n * b.d, a.d * b.n, a.np \/ b.np)

\* a > b on numbers; any comparison with nan is False
Gt(a, b) ==
  IF a.t = "nan" \/ b.t = "nan" THEN FALSE
  ELSE IF a.t = "inf" THEN a.n = 1 /\ ~(b.t = "inf" /\ b.n = 1)
  ELSE IF b.t = "inf" THEN b.n = -1
  ELSE a.n * b.d > b.n * a.d

\* Python truthiness of a value: None and zero are falsy, nan is truthy
Truthy(a) == ~(a.t = "None" \/ IsZero(a))

\* a != 0
NotZero(a) == ~IsZero(a)

-----------------------------------------------------------------------------
(* Provider data (RawFinancials) of one ticker:                            *)
(*   fetchFails   the property reads of obtener_datos_financieros raise    *)
(*   nestedFails  the property reads of calcular_wacc_y_roic raise         *)
(*   info         summary-info dict, key -> value or Missing               *)
(*   bs, fin, cf  first column of each statement, row -> value or Missing  *)

PassKeys == {"trailingPE", "priceToBook", "dividendRate", "dividendYield", "payoutRatio",
             "returnOnAssets", "returnOnEquity", "currentRatio", "quickRatio",
             "longTermDebtToEquity", "debtToEquity", "operatingMargins", "profitMargins"}
NameKeys == {"longName", "sector", "country", "industry"}
InfoKeys == PassKeys \cup NameKeys \cup {"currentPrice", "sharesOutstanding", "marketCap", "beta"}
BsKeys == {"Total Debt", "Cash And Cash Equivalents", "Common Stock Equity"}
FinKeys == {"Interest Expense", "Ebt", "Income Tax Expense", "EBIT"}
CfKeys == {"Free Cash Flow"}

\* dict.get(key, default)
Get(d, key, default) == IF d[key] = Missing THEN default ELSE d[key]

\* stmt.loc[row].iloc[0] if row in stmt.index else default
Loc(stmt, row, default) == IF stmt[row] # Missing THEN stmt[row] ELSE default

Triple(w, r, x) == [wacc |-> w, roic |-> r, dif |-> x]

Globals == [Rf |-> Rf, Rm |-> Rm, Tc |-> Tc]

\* rf = 0.02
rf_mut(g) == g.Rf
rf(g) == Py(2, 100)

\* equity_risk_premium = 0.05
equity_risk_premium(g) == Py(5, 100)

\* ke = rf + beta * equity_risk_premium
ke(data, g) == Add(rf(g), Mul(Get(data.info, "beta", Py(1, 1)), equity_risk_premium(g)))

deuda_total(data) == Loc(data.bs, "Total Debt", Py(0, 1))
market_cap(data) == Get(data.info, "marketCap", Py(0, 1))

\* kd = gastos_intereses / deuda_total if deuda_total != 0 else 0
kd_mut(data) == Div(Loc(data.fin, "Interest Expense", Py(0, 1)), deuda_total(data))
kd(data) ==
  IF NotZero(deuda_total(data))
  THEN Div(Loc(data.fin, "Interest Expense", Py(0, 1)), deuda_total(data))
  ELSE Py(0, 1)

\* tasa_impuestos = impuestos / ebt if ebt != 0 else 0.21
tasa_impuestos(data, g) ==
  LET ebt == Loc(data.fin, "Ebt", Py(0, 1))
  IN IF NotZero(ebt) THEN Div(Loc(data.fin, "Income Tax Expense", Py(0, 1)), ebt) ELSE Py(21, 100)

total_capital(data) == Add(market_cap(data), deuda_total(data))

wacc(data, g) ==
  Add(Mul(Div(market_cap(data), total_capital(data)), ke(data, g)),
      Mul(Mul(Div(deuda_total(data), total_capital(data)), kd(data)),
          Sub(Py(1, 1), tasa_impuestos(data, g))))

nopat(data, g) == Mul(Loc(data.fin, "EBIT", Py(0, 1)), Sub(Py(1, 1), tasa_impuestos(data, g)))

capital_invertido(data) ==
  Add(Loc(data.bs, "Common Stock Equity", Py(0, 1)),
      Sub(deuda_total(data), Loc(data.bs, "Cash And Cash Equivalents", Py(0, 1))))

roic(data, g) ==
  IF NotZero(capital_invertido(data)) THEN Div(nopat(data, g), capital_invertido(data))
  ELSE Py(0, 1)

diferencia_roic_wacc(data, g) == Sub(roic(data, g), wacc(data, g))

\* the whole function: the try block, and the except that returns None, None, None
calcular_wacc_y_roic(data, g) ==
  IF data.nestedFails
     \/ "raise" \in {wacc(data, g).t, roic(data, g).t, diferencia_roic_wacc(data, g).t}
  THEN Triple(None, None, None)
  ELSE Triple(wacc(data, g), roic(data, g), diferencia_roic_wacc(data, g))

-----------------------------------------------------------------------------
(* obtener_datos_financieros *)

Columns == {"Ticker", "Nombre", "Sector", "Pais", "Industria", "Precio", "P/E", "P/B", "P/FCF",
            "Dividend Year", "Dividend Yield %", "Payout Ratio", "ROA", "ROE",
            "Current Ratio", "Quick Ratio", "LtDebt/Eq", "Debt/Eq", "Oper Margin",
            "Profit Margin", "WACC", "ROIC", "Creacion de Valor (WACC vs ROIC)"}

fcf(data) == Loc(data.cf, "Free Cash Flow", None)

\* pfcf = price / (fcf / shares) if fcf and shares else None
pfcf(data) ==
  LET shares == Get(data.info, "sharesOutstanding", None)
  IN IF Truthy(fcf(data)) /\ Truthy(shares)
     THEN Div(Get(data.info, "currentPrice", None), Div(fcf(data), shares))
     ELSE None

\* {"Ticker": ticker, "Error": str(e)}
ErrorRecord(ticker, e) == [c \in {"Ticker", "Error"} |-> IF c = "Ticker" THEN Str(ticker) ELSE Str(e)]

\* lines 81-120 raise: the record is the one of the except block
FailsBeforeCalc(data) == data.fetchFails \/ pfcf(data).t = "raise"

SuccessRecord(ticker, data, w) ==
  LET info == data.info
  IN [c \in Columns |->
       CASE c = "Ticker" -> Str(ticker)
         [] c = "Nombre" -> Get(info, "longName", Str(ticker))
         [] c = "Sector" -> Get(info, "sector", Str(<<"N/D">>))
         [] c = "Pais" -> Get(info, "country", Str(<<"N/D">>))
         [] c = "Industria" -> Get(info, "industry", Str(<<"N/D">>))
         [] c = "Precio" -> Get(info, "currentPrice", None)
         [] c = "P/E" -> Get(info, "trailingPE", None)
         [] c = "P/B" -> Get(info, "priceToBook", None)
         [] c = "P/FCF" -> pfcf(data)
         [] c = "Dividend Year" -> Get(info, "dividendRate", None)
         [] c = "Dividend Yield %" -> Get(info, "dividendYield", None)
         [] c = "Payout Ratio" -> Get(info, "payoutRatio", None)
         [] c = "ROA" -> Get(info, "returnOnAssets", None)
         [] c = "ROE" -> Get(info, "returnOnEquity", None)
         [] c = "Current Ratio" -> Get(info, "currentRatio", None)
         [] c = "Quick Ratio" -> Get(info, "quickRatio", None)
         [] c = "LtDebt/Eq" -> Get(info, "longTermDebtToEquity", None)
         [] c = "Debt/Eq" -> Get(info, "debtToEquity", None)
         [] c = "Oper Margin" -> Get(info, "operatingMargins", None)
         [] c = "Profit Margin" -> Get(info, "profitMargins", None)
         [] c = "WACC" -> w.wacc
         [] c = "ROIC" -> w.roic
         [] c = "Creacion de Valor (WACC vs ROIC)" -> w.dif]

obtener_datos_financieros(ticker, data, g) ==
  IF data.fetchFails THEN ErrorRecord(ticker, <<"provider error">>)
  ELSE IF pfcf(data).t = "raise" THEN ErrorRecord(ticker, pfcf(data).s)
  ELSE SuccessRecord(ticker, data, calcular_wacc_y_roic(data, g))

\* "Error" in d
HasError(d) == "Error" \in DOMAIN d

-----------------------------------------------------------------------------
(* Report aggregation and the value-creation message of main *)

porcentajes == {"Dividend Yield %", "ROA", "ROE", "Oper Margin", "Profit Margin", "WACC", "ROIC"}

\* round(n / d) to the nearest integer, ties to even (d > 0)
RoundHalfEven(n, d) ==
  LET q == n \div d
      r == n % d
  IN IF 2 * r < d THEN q
     ELSE IF 2 * r > d THEN q + 1
     ELSE IF q % 2 = 0 THEN q ELSE q + 1

\* f"{x:.2%}" if pd.notnull(x) else "N/D": the text is n/100 followed by "%"
Pct(x) ==
  IF x.t \in {"None", "nan"} THEN Str(<<"N/D">>)
  ELSE IF x.t = "inf" THEN Val("pctinf", FALSE, x.n, 1, <<>>)
  ELSE Val("pct", FALSE, RoundHalfEven(x.n * 10000, x.d), 100, <<>>)

\* float(s.rstrip("%"))
FloatOfPct(s) == IF s.t = "pctinf" THEN Inf(s.n) ELSE Py(s.n, s.d)

\* the row of df for one valid record, after the formatting loop
FormatRow(d) == [c \in DOMAIN d |-> IF c \in porcentajes THEN Pct(d[c]) ELSE d[c]]

\* the message of the individual analysis for the row empresa
Etiqueta(empresa) ==
  IF empresa["ROIC"] # Str(<<"N/D">>) /\ empresa["WACC"] # Str(<<"N/D">>)
  THEN IF Gt(FloatOfPct(empresa["ROIC"]), FloatOfPct(empresa["WACC"]))
       THEN "creando valor" ELSE "destruyendo valor"
  ELSE "datos insuficientes"

-----------------------------------------------------------------------------
(* Inputs *)

MaxAbsent == 2

PresentInfo ==
  [k \in InfoKeys |->
     CASE k = "longName" -> Str(<<"Acme Corp">>)
       [] k = "sector" -> Str(<<"Technology">>)
       [] k = "country" -> Str(<<"United States">>)
       [] k = "industry" -> Str(<<"Software">>)
       [] k = "currentPrice" -> Py(150, 1)
       [] k = "sharesOutstanding" -> Py(10, 1)
       [] k = "marketCap" -> Py(1000, 1)
       [] k = "beta" -> Py(2, 1)
       [] k = "trailingPE" -> Py(25, 1)
       [] k = "priceToBook" -> Py(7, 2)
       [] k = "dividendRate" -> Py(1, 1)
       [] k = "dividendYield" -> Py(6, 1000)
       [] k = "payoutRatio" -> Py(15, 100)
       [] k = "returnOnAssets" -> Py(2, 10)
       [] k = "returnOnEquity" -> Py(45, 100)
       [] k = "currentRatio" -> Py(11, 10)
       [] k = "quickRatio" -> Py(9, 10)
       [] k = "longTermDebtToEquity" -> Py(80, 1)
       [] k = "debtToEquity" -> Py(120, 1)
       [] k = "operatingMargins" -> Py(3, 10)
       [] k = "profitMargins" -> Py(1, 4)]

PresentBs == [k \in BsKeys |->
  CASE k = "Total Debt" -> Np(100, 1)
    [] k = "Cash And Cash Equivalents" -> Np(50, 1)
    [] k = "Common Stock Equity" -> Np(400, 1)]

PresentFin == [k \in FinKeys |->
  CASE k = "Interest Expense" -> Np(5, 1)
    [] k = "Ebt" -> Np(100, 1)
    [] k = "Income Tax Expense" -> Np(21, 1)
    [] k = "EBIT" -> Np(100, 1)]

PresentCf == [k \in CfKeys |-> Np(100, 1)]

EmptyStmt(keys) == [k \in keys |-> Missing]

MkData(ff, nf, info, bs, fin, cf) ==
  [fetchFails |-> ff, nestedFails |-> nf, info |-> info, bs |-> bs, fin |-> fin, cf |-> cf]

\* inputs of calcular_wacc_y_roic: every line item absent or present, zero or not;
\* Py(0, 1) for Total Debt is the value read from a statement of dtype object
CalcInputs ==
  { MkData(FALSE, nf,
           [PresentInfo EXCEPT !["marketCap"] = mc, !["beta"] = b],
           [k \in BsKeys |-> CASE k = "Total Debt" -> td
                               [] k = "Cash And Cash Equivalents" -> ca
                               [] k = "Common Stock Equity" -> eq],
           [k \in FinKeys |-> CASE k = "Interest Expense" -> ie
                                [] k = "Ebt" -> eb
                                [] k = "Income Tax Expense" -> tx
                                [] k = "EBIT" -> ei],
           PresentCf) :
      nf \in BOOLEAN,
      mc \in {Missing, Py(0, 1), Py(1000, 1)},
      b \in {Missing, Py(2, 1)},
      td \in {Missing, Np(0, 1), Py(0, 1), Np(100, 1)},
      ca \in {Missing, Np(50, 1)},
      eq \in {Missing, Np(400, 1), Np(1128, 1)},
      ie \in {Missing, Np(5, 1)},
      eb \in {Missing, Np(0, 1), Np(100, 1)},
      tx \in {Missing, Np(21, 1)},
      ei \in {Missing, Np(100, 1)} }

AbsentSets == {S \in SUBSET (PassKeys \cup NameKeys) : Cardinality(S) <= MaxAbsent}

\* inputs of the ratio extraction: up to MaxAbsent pass-through fields absent, and
\* price, free cash flow and shares each absent, zero or present
ExtractInputs ==
  { MkData(ff, FALSE,
           [k \in InfoKeys |->
              CASE k \in S -> Missing
                [] k = "currentPrice" -> pr
                [] k = "sharesOutstanding" -> sh
                [] k = "marketCap" -> mc
                [] OTHER -> PresentInfo[k]],
           [PresentBs EXCEPT !["Total Debt"] = IF mc = Missing THEN Missing ELSE @],
           PresentFin,
           [k \in CfKeys |-> fc]) :
      ff \in BOOLEAN,
      S \in AbsentSets,
      pr \in {Missing, Py(150, 1)},
      sh \in {Missing, Py(0, 1), Py(10, 1)},
      fc \in {Missing, Np(0, 1), Np(100, 1)},
      mc \in {Missing, Py(1000, 1)} }

FnInputs == CalcInputs \cup ExtractInputs

\* sidebar values of Rf, Rm, Tc: the defaults 4.35, 8.5, 21 and another choice
Configs == { [Rf |-> Py(435, 10000), Rm |-> Py(85, 1000), Tc |-> Py(21, 100)],
             [Rf |-> Py(3, 100), Rm |-> Py(10, 100), Tc |-> Py(30, 100)] }

NoData == MkData(FALSE, FALSE, EmptyStmt(InfoKeys), EmptyStmt(BsKeys),
                 EmptyStmt(FinKeys), EmptyStmt(CfKeys))
NoRec == [c \in {"Ticker"} |-> None]

-----------------------------------------------------------------------------
(* SpecFn: the functions applied to one ticker's data *)

TickerFn == <<"ACME">>

InitFn ==
  /\ raw \in FnInputs
  /\ \E g \in Configs : Rf = g.Rf /\ Rm = g.Rm /\ Tc = g.Tc
  /\ pc = "fn_in"
  /\ tickers_input = <<>> /\ max_tickers = 1 /\ tickers = <<TickerFn>>
  /\ batch_start = 0 /\ i = 0 /\ batch_tickers = <<>>
  /\ provider = [t \in {TickerFn} |-> raw]
  /\ rec = NoRec /\ resultados = <<>> /\ progreso = <<>> /\ log = <<>>
  /\ paced = FALSE /\ calc_paced = FALSE
  /\ outcome = "none" /\ df = <<>> /\ etiqueta = "none"

FnObtener ==
  /\ pc = "fn_in"
  /\ rec' = obtener_datos_financieros(TickerFn, raw, Globals)
  /\ pc' = "fn_rec"
  /\ UNCHANGED <<tickers_input, max_tickers, Rf, Rm, Tc, tickers, batch_start, i,
                 batch_tickers, provider, raw,
                 resultados, progreso, log, paced, calc_paced, outcome, df, etiqueta>>

FnFormat ==
  /\ pc = "fn_rec"
  /\ ~HasError(rec)
  /\ df' = <<FormatRow(rec)>>
  /\ pc' = "fn_df"
  /\ UNCHANGED <<tickers_input, max_tickers, Rf, Rm, Tc, tickers, batch_start, i,
                 batch_tickers, provider, raw, rec,
                 resultados, progreso, log, paced, calc_paced, outcome, etiqueta>>

FnEtiqueta ==
  /\ pc = "fn_df"
  /\ etiqueta' = Etiqueta(df[1])
  /\ pc' = "fn_done"
  /\ UNCHANGED <<tickers_input, max_tickers, Rf, Rm, Tc, tickers, batch_start, i,
                 batch_tickers, provider, raw, rec,
                 resultados, progreso, log, paced, calc_paced, outcome, df>>

NextFn == FnObtener \/ FnFormat \/ FnEtiqueta

SpecFn == InitFn /\ [][NextFn]_vars

-----------------------------------------------------------------------------
(* Spec: one run of main, from the click on the button to the table *)

MaxLen == 3
LongLen == 12
batch_size == 10
SliderMin == 1
SliderMax == 100

Whitespace == {" "}

\* str.upper, character by character
UpperChar(c) == CASE c = "a" -> "A" [] c = "b" -> "B" [] c = "c" -> "C" [] OTHER -> c
Upper(w) == [k \in DOMAIN w |-> UpperChar(w[k])]

\* str.strip
RECURSIVE LStrip(_)
LStrip(w) == IF w # <<>> /\ Head(w) \in Whitespace THEN LStrip(Tail(w)) ELSE w
RECURSIVE RStrip(_)
RStrip(w) ==
  IF w # <<>> /\ w[Len(w)] \in Whitespace THEN RStrip(SubSeq(w, 1, Len(w) - 1)) ELSE w
Strip(w) == RStrip(LStrip(w))

Min(a, b) == IF a < b THEN a ELSE b

\* seq[lo:hi] for 0 <= lo
Slice(seq, lo, hi) == SubSeq(seq, lo + 1, Min(hi, Len(seq)))

NonEmptyEntry(w) == Strip(w) # <<>>

\* [t.strip().upper() for t in tickers_input.split(",") if t.strip()][:max_tickers]
Normalizar(entries, m) ==
  LET kept == SelectSeq(entries, NonEmptyEntry)
  IN Slice([k \in DOMAIN kept |-> Upper(Strip(kept[k]))], 0, m)

\* dict
Keys(dict) == {dict[k].k : k \in DOMAIN dict}
DictSet(dict, key, v) ==
  IF key \in Keys(dict)
  THEN [k \in DOMAIN dict |-> IF dict[k].k = key THEN [k |-> key, v |-> v] ELSE dict[k]]
  ELSE Append(dict, [k |-> key, v |-> v])
Values(dict) == [k \in DOMAIN dict |-> dict[k].v]

NoError(d) == ~HasError(d)

\* datos_validos = [d for d in datos if "Error" not in d]
datos_validos_mut(datos) == datos
datos_validos(datos) == SelectSeq(datos, NoError)

\* min(batch_start + batch_size, len(tickers))
batch_end_mut(start, n) == Min(start + batch_size, n) - 1
batch_end(start, n) == Min(start + batch_size, n)

RawEntries == { <<" ">>, <<" ", "a">>, <<"B">>, <<"c", " ">> }
Symbols == { <<"A">>, <<"B">>, <<"C">> }

Good == MkData(FALSE, FALSE, PresentInfo, PresentBs, PresentFin, PresentCf)
FetchFail == [Good EXCEPT !.fetchFails = TRUE]
PriceMissing == [Good EXCEPT !.info = [@ EXCEPT !["currentPrice"] = Missing]]
Profiles == {Good, FetchFail, PriceMissing}

ShortInputs == UNION { [1..n -> RawEntries] : n \in 1..MaxLen }
LongEntry(k) == CASE k % 3 = 1 -> <<" ", "a">> [] k % 3 = 2 -> <<"B">> [] OTHER -> <<"c", " ">>
LongInputs == { [k \in 1..LongLen |-> LongEntry(k)] }

Init ==
  /\ \/ /\ tickers_input \in ShortInputs
        /\ max_tickers \in {m \in SliderMin..SliderMax : m <= MaxLen \/ m = SliderMax}
     \/ /\ tickers_input \in LongInputs
        /\ max_tickers \in {batch_size + 1, SliderMax}
  /\ \E g \in Configs : Rf = g.Rf /\ Rm = g.Rm /\ Tc = g.Tc
  /\ provider \in [Symbols -> Profiles]
  /\ pc = "idle"
  /\ tickers = <<>> /\ batch_start = 0 /\ i = 0 /\ batch_tickers = <<>>
  /\ raw = NoData /\ rec = NoRec
  /\ resultados = <<>> /\ progreso = <<>> /\ log = <<>>
  /\ paced = FALSE /\ calc_paced = FALSE
  /\ outcome = "none" /\ df = <<>> /\ etiqueta = "none"

\* lines 175-187: the list is normalized and cut, the button is clicked
Analizar ==
  /\ pc = "idle"
  /\ tickers' = Normalizar(tickers_input, max_tickers)
  /\ IF tickers' = <<>>
     THEN outcome' = "warning" /\ pc' = "done"
     ELSE outcome' = outcome /\ pc' = "batch"
  /\ resultados' = <<>> /\ batch_start' = 0
  /\ UNCHANGED <<tickers_input, max_tickers, Rf, Rm, Tc, i, batch_tickers, provider, raw, rec,
                 progreso, log, paced, calc_paced, df, etiqueta>>

\* lines 188-190: next batch, or the loop is over
SiguienteLote ==
  /\ pc = "batch"
  /\ IF batch_start < Len(tickers)
     THEN /\ batch_tickers' = Slice(tickers, batch_start, batch_end(batch_start, Len(tickers)))
          /\ i' = 0
          /\ pc' = "ticker"
     ELSE /\ pc' = "mostrar"
          /\ UNCHANGED <<batch_tickers, i>>
  /\ UNCHANGED <<tickers_input, max_tickers, Rf, Rm, Tc, tickers, batch_start, provider, raw, rec,
                 resultados, progreso, log, paced, calc_paced, outcome, df, etiqueta>>

\* line 192 with the batch exhausted: the outer loop advances
FinLote ==
  /\ pc = "ticker"
  /\ i >= Len(batch_tickers)
  /\ batch_start' = batch_start + batch_size
  /\ pc' = "batch"
  /\ UNCHANGED <<tickers_input, max_tickers, Rf, Rm, Tc, tickers, i, batch_tickers, provider, raw,
                 rec, resultados, progreso, log, paced, calc_paced, outcome, df, etiqueta>>

\* lines 192-194 and 80-120: obtener_datos_financieros is called, reads the provider
\* and extracts the ratios; an exception there ends the call with the error record
Fetch ==
  /\ pc = "ticker"
  /\ i < Len(batch_tickers)
  /\ LET t == batch_tickers[i + 1]
     IN /\ log' = Append(log, t)
        /\ raw' = provider[t]
        /\ IF FailsBeforeCalc(raw')
           THEN rec' = obtener_datos_financieros(t, raw', Globals) /\ pc' = "store"
           ELSE rec' = rec /\ pc' = "calc_sleep"
  /\ calc_paced' = FALSE
  /\ UNCHANGED <<tickers_input, max_tickers, Rf, Rm, Tc, tickers, batch_start, i, batch_tickers,
                 provider, resultados, progreso, paced, outcome, df, etiqueta>>

\* lines 27-30: calcular_wacc_y_roic waits before it reads the provider
CalcPausa ==
  /\ pc = "calc_sleep"
  /\ calc_paced' = TRUE
  /\ pc' = "calc_fetch"
  /\ UNCHANGED <<tickers_input, max_tickers, Rf, Rm, Tc, tickers, batch_start, i, batch_tickers,
                 provider, raw, rec, resultados, progreso, log, paced, outcome, df, etiqueta>>

\* lines 33-76 and 125-149: the nested read, the computation, and the record
CalcFetch ==
  /\ pc = "calc_fetch"
  /\ rec' = obtener_datos_financieros(batch_tickers[i + 1], raw, Globals)
  /\ pc' = "store"
  /\ UNCHANGED <<tickers_input, max_tickers, Rf, Rm, Tc, tickers, batch_start, i, batch_tickers,
                 provider, raw, resultados, progreso, log, paced, calc_paced, outcome, df,
                 etiqueta>>

\* lines 194-195: resultados[t] = ..., progress_bar.progress(...)
Store ==
  /\ pc = "store"
  /\ resultados' = DictSet(resultados, batch_tickers[i + 1], rec)
  /\ progreso' = Append(progreso, Py(batch_start + i + 1, Len(tickers)))
  /\ paced' = FALSE
  /\ pc' = "sleep"
  /\ UNCHANGED <<tickers_input, max_tickers, Rf, Rm, Tc, tickers, batch_start, i, batch_tickers,
                 provider, raw, rec, log, calc_paced, outcome, df, etiqueta>>

\* line 196: time.sleep(1), then the next ticker of the batch
Pausa_mut ==
  /\ pc = "sleep"
  /\ paced' = (i + 1 = Len(batch_tickers))
  /\ i' = i + 1
  /\ pc' = "ticker"
  /\ UNCHANGED <<tickers_input, max_tickers, Rf, Rm, Tc, tickers, batch_start, batch_tickers,
                 provider, raw, rec, resultados, progreso, log, calc_paced, outcome, df, etiqueta>>
Pausa ==
  /\ pc = "sleep"
  /\ paced' = TRUE
  /\ i' = i + 1
  /\ pc' = "ticker"
  /\ UNCHANGED <<tickers_input, max_tickers, Rf, Rm, Tc, tickers, batch_start, batch_tickers,
                 provider, raw, rec, resultados, progreso, log, calc_paced, outcome, df, etiqueta>>

\* lines 198-213: failure records are dropped; the error, or the DataFrame
Mostrar ==
  /\ pc = "mostrar"
  /\ IF resultados # <<>>
     THEN LET validos == datos_validos(Values(resultados))
          IN IF validos = <<>>
             THEN outcome' = "error" /\ df' = df
             ELSE outcome' = "table" /\ df' = [k \in DOMAIN validos |-> FormatRow(validos[k])]
     ELSE UNCHANGED <<outcome, df>>
  /\ pc' = "done"
  /\ UNCHANGED <<tickers_input, max_tickers, Rf, Rm, Tc, tickers, batch_start, i, batch_tickers,
                 provider, raw, rec, resultados, progreso, log, paced, calc_paced, etiqueta>>

Next ==
  \/ Analizar
  \/ SiguienteLote
  \/ FinLote
  \/ Fetch
  \/ CalcPausa
  \/ CalcFetch
  \/ Store
  \/ Pausa
  \/ Mostrar

Spec == Init /\ [][Next]_vars

-----------------------------------------------------------------------------
(* Properties *)

Distinct(seq) == \A a, b \in DOMAIN seq : a # b => seq[a] # seq[b]

\* numeric equality, whatever the number's Python type
NumEq(a, b) == IsNum(a) /\ IsNum(b) /\ a.n = b.n /\ a.d = b.d

Spread == "Creacion de Valor (WACC vs ROIC)"

Item(stmt, row) == IF stmt[row] = Missing THEN Py(0, 1) ELSE stmt[row]

\* indices of the successful records of the report
OkIdx == {k \in DOMAIN resultados : ~HasError(resultados[k].v)}

\* C1: for a run over distinct tickers, every ticker of the list is processed, in
\* order, and the report holds, in input order, a failure record exactly for the
\* tickers whose data fetch raised and a successful record for every other one.
C1_BatchIsolation ==
  (pc = "done" /\ tickers # <<>> /\ Distinct(tickers)) =>
     /\ log = tickers
     /\ Len(resultados) = Len(tickers)
     /\ \A k \in DOMAIN resultados :
          /\ resultados[k].k = tickers[k]
          /\ HasError(resultados[k].v) <=> provider[tickers[k]].fetchFails

\* C2: when market capitalization and total debt are both zero, the record of the
\* ticker is a successful one whose WACC, ROIC and spread are all None.
C2_ZeroCapitalUnavailable ==
  (pc # "fn_in" /\ IsZero(market_cap(raw)) /\ IsZero(deuda_total(raw))
     /\ ~FailsBeforeCalc(raw)) =>
     /\ ~HasError(rec)
     /\ rec["WACC"] = None /\ rec["ROIC"] = None /\ rec[Spread] = None

ColKey ==
  [c \in Columns \ {"Ticker", "Nombre", "Sector", "Pais", "Industria", "P/FCF", "WACC", "ROIC",
                    Spread} |->
     CASE c = "Precio" -> "currentPrice"
       [] c = "P/E" -> "trailingPE"
       [] c = "P/B" -> "priceToBook"
       [] c = "Dividend Year" -> "dividendRate"
       [] c = "Dividend Yield %" -> "dividendYield"
       [] c = "Payout Ratio" -> "payoutRatio"
       [] c = "ROA" -> "returnOnAssets"
       [] c = "ROE" -> "returnOnEquity"
       [] c = "Current Ratio" -> "currentRatio"
       [] c = "Quick Ratio" -> "quickRatio"
       [] c = "LtDebt/Eq" -> "longTermDebtToEquity"
       [] c = "Debt/Eq" -> "debtToEquity"
       [] c = "Oper Margin" -> "operatingMargins"
       [] c = "Profit Margin" -> "profitMargins"]

\* C3: whenever the data fetch succeeds, whatever fields are absent, the record is a
\* successful one, every present field is passed through unchanged (an absent one
\* is None), and P/FCF is price / (fcf / shares), computed only when free cash flow
\* and shares outstanding are present and shares is nonzero, None otherwise.
C3_FieldsIndependent ==
  (pc # "fn_in" /\ ~raw.fetchFails) =>
     /\ ~HasError(rec)
     /\ \A c \in DOMAIN ColKey :
          rec[c] = IF raw.info[ColKey[c]] = Missing THEN None ELSE raw.info[ColKey[c]]
     /\ LET fc == raw.cf["Free Cash Flow"]
            sh == raw.info["sharesOutstanding"]
        IN IF fc # Missing /\ sh # Missing /\ ~IsZero(sh)
           THEN rec["P/FCF"] # None =>
                  NumEq(rec["P/FCF"], Div(raw.info["currentPrice"], Div(fc, sh)))
           ELSE rec["P/FCF"] = None

\* C4: after the loop the run shows the empty-result error, and builds no table,
\* exactly when no successful record remains; otherwise the table is built from
\* the successful records, in the order of the report.
C4_EmptyResult ==
  (pc = "done" /\ tickers # <<>>) =>
     /\ outcome = "error" <=> OkIdx = {}
     /\ outcome = "error" => df = <<>>
     /\ OkIdx # {} =>
          /\ outcome = "table"
          /\ Len(df) = Cardinality(OkIdx)
          /\ \A k \in OkIdx :
               df[Cardinality({j \in OkIdx : j <= k})]["Ticker"] = Str(resultados[k].k)

W_C4_AllFailed ==
  pc = "done" /\ Len(resultados) >= 2 /\ OkIdx = {} /\ outcome = "error" /\ df = <<>>

\* C5: for every ticker list, repeated symbols included, the report holds exactly
\* one result per ticker of the run, each written exactly once at its position,
\* and the table has one row per successful ticker, in input order.
C5_ReportShape ==
  (pc = "done" /\ tickers # <<>>) =>
     /\ Len(resultados) = Len(tickers)
     /\ \A k \in DOMAIN resultados :
          /\ resultados[k].k = tickers[k]
          /\ Cardinality({j \in DOMAIN log : log[j] = resultados[k].k}) = 1
     /\ Len(df) = Cardinality(OkIdx)

\* C6: with nonzero total capital and the nested read succeeding, WACC, ROIC and
\* spread are numbers; cost of debt is 0 when total debt is 0; the tax rate is 0.21
\* when EBT is 0 and incomeTaxExpense / EBT otherwise; ROIC is 0 when invested
\* capital is 0; an absent line item counts as 0 and an absent beta as 1.
C6_Fallbacks ==
  (pc # "fn_in" /\ ~FailsBeforeCalc(raw) /\ ~raw.nestedFails
     /\ ~IsZero(Add(Item(raw.info, "marketCap"), Item(raw.bs, "Total Debt")))) =>
     LET E == Item(raw.info, "marketCap")
         D == Item(raw.bs, "Total Debt")
         beta == IF raw.info["beta"] = Missing THEN Py(1, 1) ELSE raw.info["beta"]
         ebt == Item(raw.fin, "Ebt")
         t == IF IsZero(ebt) THEN Py(21, 100) ELSE Div(Item(raw.fin, "Income Tax Expense"), ebt)
         costDebt == IF IsZero(D) THEN Py(0, 1) ELSE Div(Item(raw.fin, "Interest Expense"), D)
         costEquity == Add(Py(2, 100), Mul(beta, Py(5, 100)))
         invested == Sub(Add(Item(raw.bs, "Common Stock Equity"), D),
                         Item(raw.bs, "Cash And Cash Equivalents"))
         w == Add(Mul(Div(E, Add(E, D)), costEquity),
                  Mul(Mul(Div(D, Add(E, D)), costDebt), Sub(Py(1, 1), t)))
         r == IF IsZero(invested) THEN Py(0, 1)
              ELSE Div(Mul(Item(raw.fin, "EBIT"), Sub(Py(1, 1), t)), invested)
     IN /\ ~HasError(rec)
        /\ NumEq(kd(raw), costDebt)
        /\ NumEq(tasa_impuestos(raw, Globals), t)
        /\ NumEq(rec["WACC"], w)
        /\ NumEq(rec["ROIC"], r)
        /\ NumEq(rec[Spread], Sub(r, w))

W_C6_AllFallbacks ==
  /\ pc = "fn_rec" /\ ~HasError(rec)
  /\ raw.bs["Total Debt"] = Missing /\ raw.fin["Ebt"] = Missing
  /\ raw.bs["Common Stock Equity"] = Missing /\ raw.info["beta"] = Missing
  /\ raw.info["marketCap"] = Py(1000, 1)
  /\ NumEq(rec["WACC"], Py(7, 100)) /\ NumEq(rec["ROIC"], Py(0, 1))

\* C7: for a record with a computed WACC and ROIC the stored spread is ROIC - WACC
\* and the message shown for the row is "creating value" exactly when ROIC > WACC
\* of the record, "destroying value" otherwise.
C7_SpreadAndLabel ==
  (pc = "fn_done" /\ IsNum(rec["WACC"]) /\ IsNum(rec["ROIC"])) =>
     /\ NumEq(rec[Spread], Sub(rec["ROIC"], rec["WACC"]))
     /\ etiqueta \in {"creando valor", "destruyendo valor"}
     /\ etiqueta = "creando valor" <=> Gt(rec["ROIC"], rec["WACC"])

InTicker == pc \in {"calc_sleep", "calc_fetch", "store", "sleep"}

\* C8: at most one ticker is in process at any time; a read of the provider for a
\* ticker other than the first starts only after the loop's pause that follows the
\* previous ticker, inside a batch and across batches; and the nested read of
\* calcular_wacc_y_roic starts only after that function's own pause.
C8_Pacing ==
  /\ [](Len(log) - Len(progreso) \in {0, 1})
  /\ [][/\ Len(log') = Len(log) + 1 => (log = <<>> \/ paced)
        /\ (pc = "calc_fetch" /\ pc' = "store") => calc_paced]_vars

W_C8_AcrossBatches ==
  /\ pc = "store" /\ Len(log) = batch_size + 1 /\ i = 0 /\ batch_start = batch_size
  /\ calc_paced /\ paced /\ ~HasError(rec)

C9_Trim(w) ==
  LET idx == {k \in DOMAIN w : w[k] # " "}
  IN IF idx = {} THEN <<>>
     ELSE SubSeq(w, CHOOSE k \in idx : \A j \in idx : k <= j,
                    CHOOSE k \in idx : \A j \in idx : k >= j)

C9_Up == [c \in {"a", "b", "c", "A", "B", "C", " "} |->
            CASE c = "a" -> "A" [] c = "b" -> "B" [] c = "c" -> "C" [] OTHER -> c]

C9_NonEmpty(w) == w # <<>>

C9_Expected ==
  LET cleaned == [k \in DOMAIN tickers_input |->
                    [j \in DOMAIN C9_Trim(tickers_input[k]) |-> C9_Up[C9_Trim(tickers_input[k])[j]]]]
      kept == SelectSeq(cleaned, C9_NonEmpty)
  IN SubSeq(kept, 1, IF max_tickers < Len(kept) THEN max_tickers ELSE Len(kept))

\* C9: the ticker list is the trimmed, upper-cased, non-empty entries cut to the
\* first max_tickers; the tickers are processed once each, in input order, in
\* contiguous batches of at most 10; none beyond the maximum is fetched; the k-th
\* progress value is k / len(tickers), increasing, and 1 after the last ticker.
C9_TruncationAndBatching ==
  pc # "idle" =>
     /\ tickers = C9_Expected
     /\ Len(log) <= max_tickers
     /\ log = SubSeq(tickers, 1, Len(log))
     /\ pc = "done" => log = tickers
     /\ InTicker =>
          /\ batch_start % 10 = 0
          /\ Len(batch_tickers) \in 1..10
          /\ batch_tickers = SubSeq(tickers, batch_start + 1, batch_start + Len(batch_tickers))
          /\ Len(batch_tickers) = 10 \/ batch_start + Len(batch_tickers) = Len(tickers)
          /\ Len(log) = batch_start + i + 1
     /\ Len(log) - Len(progreso) \in {0, 1}
     /\ \A k \in DOMAIN progreso :
          /\ progreso[k].n * Len(tickers) = k * progreso[k].d
          /\ k > 1 => Gt(progreso[k], progreso[k - 1])
          /\ NumEq(progreso[k], Py(1, 1)) <=> k = Len(tickers)
     /\ (pc = "done" /\ tickers # <<>>) => Len(progreso) = Len(tickers)

W_C9_TruncatedTwoBatches ==
  /\ pc = "done" /\ Len(tickers) = batch_size + 1 /\ Len(tickers_input) > Len(tickers)
  /\ log = tickers /\ Len(progreso) = batch_size + 1 /\ batch_start = 2 * batch_size

\* Rf, Rm, Tc as set at lines 17-19
DefaultGlobals == [Rf |-> Py(435, 10000), Rm |-> Py(85, 1000), Tc |-> Py(21, 100)]

\* C10: whatever Rf, Rm and Tc the sidebar set, every record of the report is the
\* record that the same provider data yields under the default parameters.
C10_ConfigIndependent ==
  \A k \in DOMAIN resultados :
     resultados[k].v =
       obtener_datos_financieros(resultados[k].k, provider[resultados[k].k], DefaultGlobals)

W_C10_OtherConfig ==
  /\ pc = "done" /\ Globals # DefaultGlobals
  /\ \E k \in DOMAIN resultados :
       ~HasError(resultados[k].v) /\ IsNum(resultados[k].v["WACC"])

====
